---- MODULE Spec2Model ----
(***************************************************************************)
(* Model of the swim-meet program parser (src/pdf_to_heats_xlsx.py).       *)
(*                                                                         *)
(* Text is modelled character by character: a Python str is a sequence of  *)
(* one-character strings, so "1a 12" is <<"1","a"," ","1","2">>.  The      *)
(* regular expressions of the source are written as sequences of pieces    *)
(* and matched by ReMatch with Python's leftmost, greedy, backtracking     *)
(* semantics.                                                              *)
(***************************************************************************)
EXTENDS Integers, Sequences, FiniteSets, TLC

(***************************************************************************)
(* Characters                                                              *)
(***************************************************************************)
UpperS == <<"A","B","C","D","E","F","G","H","I","J","K","L","M",
            "N","O","P","Q","R","S","T","U","V","W","X","Y","Z">>
LowerS == <<"a","b","c","d","e","f","g","h","i","j","k","l","m",
            "n","o","p","q","r","s","t","u","v","w","x","y","z">>
DigitS == <<"0","1","2","3","4","5","6","7","8","9">>

Upper == {UpperS[j] : j \in 1..26}
Lower == {LowerS[j] : j \in 1..26}
Digit == {DigitS[j] : j \in 1..10}
Space == {" "}
Punct == {"-", "&", ",", "/", ":", ".", "(", ")", "_"}
Chars == Upper \cup Lower \cup Digit \cup Space \cup Punct
\* \w, \S and . of the re module, over Chars (no line holds a newline)
WordCh == Upper \cup Lower \cup Digit \cup {"_"}
NonSpace == Chars \ Space
AnyCh == Chars

\* str.lower() and str.upper() on one character
ToLower == [c \in Chars |-> IF c \in Upper
                            THEN LowerS[CHOOSE j \in 1..26 : UpperS[j] = c]
                            ELSE c]
ToUpper == [c \in Chars |-> IF c \in Lower
                            THEN UpperS[CHOOSE j \in 1..26 : LowerS[j] = c]
                            ELSE c]

StrLower(s) == [j \in 1..Len(s) |-> ToLower[s[j]]]
StrUpper(s) == [j \in 1..Len(s) |-> ToUpper[s[j]]]

\* int() of a string of decimal digits
DigitVal(c) == (CHOOSE j \in 1..10 : DigitS[j] = c) - 1

RECURSIVE ToInt(_)
ToInt(s) == IF s = <<>> THEN 0
            ELSE 10 * ToInt(SubSeq(s, 1, Len(s) - 1)) + DigitVal(s[Len(s)])

\* s[a:b] with 0-based offsets, as Python slices
Slice(s, a, b) == SubSeq(s, a + 1, b)

(***************************************************************************)
(* Regular expressions.  A pattern is a sequence of pieces:                *)
(*   Cls(S, lo, hi)  a character class repeated lo..hi times, greedy       *)
(*   Alt(opts)       one of the literal strings opts, tried in order       *)
(*   Opt(opts)       (?:...)? over the literal strings opts, greedy        *)
(*   WB, BOL, EOL    the assertions \b, ^ and $                            *)
(* With ic the match ignores case (re.IGNORECASE); literals and classes of *)
(* an ignore-case pattern are written in lower case.                       *)
(***************************************************************************)
Inf == 1000

Cls(S, lo, hi) == [k |-> "cls", set |-> S, min |-> lo, max |-> hi, opts |-> <<>>]
Alt(o) == [k |-> "alt", set |-> {}, min |-> 1, max |-> 1, opts |-> o]
Opt(o) == [k |-> "alt", set |-> {}, min |-> 0, max |-> 1, opts |-> o]
Lit(w) == Alt(<<w>>)
WB  == [k |-> "wb",  set |-> {}, min |-> 0, max |-> 0, opts |-> <<>>]
BOL == [k |-> "bol", set |-> {}, min |-> 0, max |-> 0, opts |-> <<>>]
EOL == [k |-> "eol", set |-> {}, min |-> 0, max |-> 0, opts |-> <<>>]

Fold(ic, c) == IF ic THEN ToLower[c] ELSE c

\* the number of characters of s from offset i on that lie in S, at most hi
RECURSIVE Run(_, _, _, _, _)
Run(S, ic, s, i, hi) ==
    IF hi = 0 \/ i >= Len(s) \/ Fold(ic, s[i + 1]) \notin S THEN 0
    ELSE 1 + Run(S, ic, s, i + 1, hi - 1)

\* the literal w stands in s at offset i
HasLit(w, ic, s, i) ==
    /\ i + Len(w) <= Len(s)
    /\ \A j \in 1..Len(w) : Fold(ic, s[i + j]) = w[j]

IsWordAt(s, j) == j >= 1 /\ j <= Len(s) /\ s[j] \in WordCh

NoMatch == [ok |-> FALSE, pos |-> <<>>]

\* ReFrom matches the pieces k.. of re in s at offset i; pos lists the offset
\* reached after each piece.  Greedy pieces give back one character at a time.
RECURSIVE ReFrom(_, _, _, _, _)
RECURSIVE TryCls(_, _, _, _, _, _)
RECURSIVE TryAlt(_, _, _, _, _, _)

TryCls(re, ic, s, k, i, n) ==
    IF n < re[k].min THEN NoMatch
    ELSE LET t == ReFrom(re, ic, s, k + 1, i + n)
         IN  IF t.ok THEN [ok |-> TRUE, pos |-> <<i + n>> \o t.pos]
             ELSE TryCls(re, ic, s, k, i, n - 1)

TryAlt(re, ic, s, k, i, j) ==
    IF j > Len(re[k].opts)
    THEN IF re[k].min = 0
         THEN LET t == ReFrom(re, ic, s, k + 1, i)
              IN  IF t.ok THEN [ok |-> TRUE, pos |-> <<i>> \o t.pos] ELSE NoMatch
         ELSE NoMatch
    ELSE LET w == re[k].opts[j]
             t == IF HasLit(w, ic, s, i)
                  THEN ReFrom(re, ic, s, k + 1, i + Len(w))
                  ELSE NoMatch
         IN  IF t.ok THEN [ok |-> TRUE, pos |-> <<i + Len(w)>> \o t.pos]
             ELSE TryAlt(re, ic, s, k, i, j + 1)

ReFrom(re, ic, s, k, i) ==
    IF k > Len(re) THEN [ok |-> TRUE, pos |-> <<>>]
    ELSE LET p == re[k]
             zero(c) == IF c
                        THEN LET t == ReFrom(re, ic, s, k + 1, i)
                             IN  IF t.ok THEN [ok |-> TRUE, pos |-> <<i>> \o t.pos]
                                 ELSE NoMatch
                        ELSE NoMatch
         IN  CASE p.k = "cls" -> TryCls(re, ic, s, k, i, Run(p.set, ic, s, i, p.max))
               [] p.k = "alt" -> TryAlt(re, ic, s, k, i, 1)
               [] p.k = "wb"  -> zero(IsWordAt(s, i) # IsWordAt(s, i + 1))
               [] p.k = "bol" -> zero(i = 0)
               [] p.k = "eol" -> zero(i = Len(s))

\* re.match: the match at offset 0; start is 0 and pos[k] ends piece k
ReMatch(re, ic, s) ==
    LET t == ReFrom(re, ic, s, 1, 0)
    IN  [ok |-> t.ok, start |-> 0, pos |-> t.pos]

\* re.search: the match at the leftmost offset that has one
RECURSIVE SearchFrom(_, _, _, _)
SearchFrom(re, ic, s, i) ==
    IF i > Len(s) THEN [ok |-> FALSE, start |-> 0, pos |-> <<>>]
    ELSE LET t == ReFrom(re, ic, s, 1, i)
         IN  IF t.ok THEN [ok |-> TRUE, start |-> i, pos |-> t.pos]
             ELSE SearchFrom(re, ic, s, i + 1)

ReSearch(re, ic, s) == SearchFrom(re, ic, s, 0)

\* the text piece k of a match m consumed (a group that is one piece)
Group(m, s, k) == Slice(s, IF k = 1 THEN m.start ELSE m.pos[k - 1], m.pos[k])

\* re.sub(re, repl, s): every non-overlapping non-empty match, left to right,
\* replaced by repl
RECURSIVE SubFrom(_, _, _, _, _)
SubFrom(re, ic, repl, s, i) ==
    IF i >= Len(s) THEN <<>>
    ELSE LET t == ReFrom(re, ic, s, 1, i)
         IN  IF t.ok /\ t.pos[Len(t.pos)] > i
             THEN repl \o SubFrom(re, ic, repl, s, t.pos[Len(t.pos)])
             ELSE <<s[i + 1]>> \o SubFrom(re, ic, repl, s, i + 1)

ReSub(re, ic, repl, s) == SubFrom(re, ic, repl, s, 0)

\* str.strip(), str.rstrip(chars)
RECURSIVE RStripSet(_, _)
RStripSet(s, S) == IF s # <<>> /\ s[Len(s)] \in S
                   THEN RStripSet(SubSeq(s, 1, Len(s) - 1), S) ELSE s
RECURSIVE LStripSet(_, _)
LStripSet(s, S) == IF s # <<>> /\ s[1] \in S THEN LStripSet(Tail(s), S) ELSE s
Strip(s) == RStripSet(LStripSet(s, Space), Space)

\* re.sub(r"\s+", " ", s)
WsPlus == Cls(Space, 1, Inf)
WsStar == Cls(Space, 0, Inf)
CollapseWs(s) == ReSub(<<WsPlus>>, FALSE, <<" ">>, s)

\* lit in s (substring test)
RECURSIVE ContainsFrom(_, _, _)
ContainsFrom(w, s, i) ==
    IF i + Len(w) > Len(s) THEN FALSE
    ELSE HasLit(w, FALSE, s, i) \/ ContainsFrom(w, s, i + 1)
Contains(w, s) == ContainsFrom(w, s, 0)

\* s.startswith(w)
StartsWith(s, w) == HasLit(w, FALSE, s, 0)

(***************************************************************************)
(* Field normalizers and line classifiers                                  *)
(***************************************************************************)
\* stroke_to_code: substring tests in the source's order, else the squeezed
\* upper-cased phrase
stroke_to_code(stroke) ==
    LET s == StrLower(Strip(stroke))
    IN  CASE Contains(<<"f","r","e","e">>, s) -> <<"F","S">>
          [] Contains(<<"b","a","c","k">>, s) -> <<"B","K">>
          [] Contains(<<"b","r","e","a","s","t">>, s) -> <<"B","R">>
          [] Contains(<<"b","u","t","t","e","r">>, s) \/ Contains(<<"f","l","y">>, s) -> <<"F","L","Y">>
          [] Contains(<<"m","e","d","l","e","y">>, s) \/ s = <<"i","m">> -> <<"I","M">>
          [] OTHER -> StrUpper(ReSub(<<WsPlus>>, FALSE, <<>>, stroke))

\* ^Event\s+(\d+)\s+(Girls|Women|Boys|Men|Mixed)\s+(.+)$
RE_EVENT == <<BOL, Lit(<<"e","v","e","n","t">>), WsPlus, Cls(Digit, 1, Inf), WsPlus,
              Alt(<<<<"g","i","r","l","s">>, <<"w","o","m","e","n">>, <<"b","o","y","s">>, <<"m","e","n">>, <<"m","i","x","e","d">>>>),
              WsPlus, Cls(AnyCh, 1, Inf), EOL>>
\* (\d+)\s+LC\s+Meter\s+(.+)$
RE_LC_METER == <<Cls(Digit, 1, Inf), WsPlus, Lit(<<"l","c">>), WsPlus, Lit(<<"m","e","t","e","r">>),
                 WsPlus, Cls(AnyCh, 1, Inf), EOL>>
\* (\d+)\s+Meter\s+(.+)$
RE_METER == <<Cls(Digit, 1, Inf), WsPlus, Lit(<<"m","e","t","e","r">>), WsPlus,
              Cls(AnyCh, 1, Inf), EOL>>
\* \bmulti\s*-?\s*class\b
RE_MULTICLASS == <<WB, Lit(<<"m","u","l","t","i">>), WsStar, Cls({"-"}, 0, 1), WsStar,
                   Lit(<<"c","l","a","s","s">>), WB>>

\* the dict lookup {"girls":"W", ...}.get(gender_word, "")
GenderOf(gender_word) ==
    CASE gender_word = <<"g","i","r","l","s">> -> <<"W">>
      [] gender_word = <<"w","o","m","e","n">> -> <<"W">>
      [] gender_word = <<"b","o","y","s">> -> <<"M">>
      [] gender_word = <<"m","e","n">> -> <<"M">>
      [] gender_word = <<"m","i","x","e","d">> -> <<"X">>
      [] OTHER -> <<>>

NoHeader == [ok |-> FALSE, number |-> 0, gender |-> <<>>,
             event_code |-> <<>>, age_group |-> <<>>]

\* parse_event_header, from the inside out.  Each step takes the values the
\* source has computed so far as parameters.

\* EventCode made of the stroke code alone
EventCode_stroke_only(dist, stroke_raw) ==
    stroke_to_code(CollapseWs(Strip(ReSub(RE_MULTICLASS, TRUE, <<>>, stroke_raw))))

\* is_multiclass, stroke and the f-string of event_code
EventCode(dist, stroke_raw) ==
    dist \o stroke_to_code(CollapseWs(Strip(ReSub(RE_MULTICLASS, TRUE, <<>>, stroke_raw))))
         \o (IF ReSearch(RE_MULTICLASS, TRUE, stroke_raw).ok THEN <<" ","M","C">> ELSE <<>>)

\* the returns of parse_event_header; m2 is the distance match (nst the piece
\* of its stroke group), not ok when neither pattern is found
HeaderOf(number, gender, rest, m2, nst) ==
    IF ~m2.ok
    THEN [ok |-> TRUE, number |-> number, gender |-> gender,
          event_code |-> StrUpper(rest), age_group |-> <<>>]
    ELSE [ok |-> TRUE, number |-> number, gender |-> gender,
          event_code |-> EventCode(Group(m2, rest, 1),
                                   CollapseWs(Strip(Group(m2, rest, nst)))),
          age_group |-> Strip(Slice(rest, 0, m2.start))]

\* m2: "<dist> LC Meter <stroke>", else "<dist> Meter <stroke>"
HeaderWithDistance(number, gender, rest, lc) ==
    IF lc.ok THEN HeaderOf(number, gender, rest, lc, 7)
    ELSE HeaderOf(number, gender, rest, ReSearch(RE_METER, TRUE, rest), 5)

\* EventNumber counting events from one
EventNumber_from_one(digits) == ToInt(digits) + 1

\* int(m.group(1))
EventNumber(digits) == ToInt(digits)

HeaderOfMatch(text, m) ==
    IF ~m.ok THEN NoHeader
    ELSE HeaderWithDistance(EventNumber(Group(m, text, 4)),
                            GenderOf(StrLower(Group(m, text, 6))),
                            Strip(Group(m, text, 8)),
                            ReSearch(RE_LC_METER, TRUE, Strip(Group(m, text, 8))))

\* parse_event_header: ok is FALSE where the source returns None
parse_event_header(raw) ==
    HeaderOfMatch(CollapseWs(Strip(raw)), ReMatch(RE_EVENT, TRUE, CollapseWs(Strip(raw))))

\* the age-phrase patterns of clean_heat_label, in the source's order
\* \b\d{1,2}\s*-\s*\d{1,2}\s*Years?\s*(?:&|and)?\s*Olds?\b
PAT_RANGE_OLD == <<WB, Cls(Digit, 1, 2), WsStar, Lit(<<"-">>), WsStar, Cls(Digit, 1, 2),
                   WsStar, Lit(<<"y","e","a","r">>), Cls({"s"}, 0, 1), WsStar,
                   Opt(<<<<"&">>, <<"a","n","d">>>>), WsStar, Lit(<<"o","l","d">>), Cls({"s"}, 0, 1), WB>>
\* \b\d{1,2}\s*-\s*\d{1,2}\s*Years?\b
PAT_RANGE == <<WB, Cls(Digit, 1, 2), WsStar, Lit(<<"-">>), WsStar, Cls(Digit, 1, 2),
               WsStar, Lit(<<"y","e","a","r">>), Cls({"s"}, 0, 1), WB>>
\* \b\d{1,2}\s*Years?\s*(?:&|and)\s*(?:Over|Under)\b
PAT_YEARS_OVER == <<WB, Cls(Digit, 1, 2), WsStar, Lit(<<"y","e","a","r">>), Cls({"s"}, 0, 1), WsStar,
                    Alt(<<<<"&">>, <<"a","n","d">>>>), WsStar, Alt(<<<<"o","v","e","r">>, <<"u","n","d","e","r">>>>), WB>>
\* \b\d{1,2}\s*(?:&|and)\s*(?:Over|Under)\b
PAT_AGE_OVER == <<WB, Cls(Digit, 1, 2), WsStar, Alt(<<<<"&">>, <<"a","n","d">>>>), WsStar,
                  Alt(<<<<"o","v","e","r">>, <<"u","n","d","e","r">>>>), WB>>
\* \b\d{1,2}\s*Years?\s*Olds?\b
PAT_YEARS_OLD == <<WB, Cls(Digit, 1, 2), WsStar, Lit(<<"y","e","a","r">>), Cls({"s"}, 0, 1), WsStar,
                   Lit(<<"o","l","d">>), Cls({"s"}, 0, 1), WB>>
\* \bYears?\s*(?:&|and)\s*(?:Over|Under)\b
PAT_BARE_YEARS_OVER == <<WB, Lit(<<"y","e","a","r">>), Cls({"s"}, 0, 1), WsStar,
                         Alt(<<<<"&">>, <<"a","n","d">>>>), WsStar, Alt(<<<<"o","v","e","r">>, <<"u","n","d","e","r">>>>), WB>>

patterns == <<PAT_RANGE_OLD, PAT_RANGE, PAT_YEARS_OVER, PAT_AGE_OVER,
              PAT_YEARS_OLD, PAT_BARE_YEARS_OVER>>

\* ^(\S+)\s+\d{1,2}$
RE_BARE_AGE == <<BOL, Cls(NonSpace, 1, Inf), WsPlus, Cls(Digit, 1, 2), EOL>>

\* for pat in patterns: s = re.sub(pat, "", s, flags=re.IGNORECASE)
RECURSIVE StripPatterns(_, _, _)
StripPatterns(pats, k, s) ==
    IF k > Len(pats) THEN s
    ELSE StripPatterns(pats, k + 1, ReSub(pats[k], TRUE, <<>>, s))

\* s = re.sub(r"^(\S+)\s+\d{1,2}$", r"\1", s)
DropBareAge(s, m) == IF m.ok THEN Group(m, s, 2) ELSE s

\* the steps of clean_heat_label after the patterns
TidyLabel(s) == Strip(DropBareAge(s, ReMatch(RE_BARE_AGE, FALSE, s)))

clean_heat_label(label) ==
    TidyLabel(Strip(RStripSet(Strip(CollapseWs(
        StripPatterns(patterns, 1, CollapseWs(Strip(label))))), {"-", " "})))

\* ^(Final|Heat)\s+(.+)$
RE_HEAT == <<BOL, Alt(<<<<"f","i","n","a","l">>, <<"h","e","a","t">>>>), WsPlus, Cls(AnyCh, 1, Inf), EOL>>

HeatLabelOfMatch(text, m) ==
    IF ~m.ok THEN [ok |-> FALSE, label |-> <<>>]
    ELSE [ok |-> TRUE, label |-> clean_heat_label(Strip(Group(m, text, 4)))]

\* parse_heat_label: ok is FALSE where the source returns None
parse_heat_label(raw) ==
    HeatLabelOfMatch(CollapseWs(Strip(raw)), ReMatch(RE_HEAT, TRUE, CollapseWs(Strip(raw))))

\* str.split(): the maximal runs of non-space characters
RECURSIVE Split(_)
Split(s) ==
    LET t == LStripSet(s, Space)
        n == Run(NonSpace, FALSE, t, 0, Inf)
    IN  IF t = <<>> THEN <<>>
        ELSE <<SubSeq(t, 1, n)>> \o Split(SubSeq(t, n + 1, Len(t)))

\* " ".join(tokens)
RECURSIVE Join(_)
Join(tokens) ==
    IF tokens = <<>> THEN <<>>
    ELSE IF Len(tokens) = 1 THEN tokens[1]
    ELSE tokens[1] \o <<" ">> \o Join(Tail(tokens))

\* \(\s*V\s*\)
RE_VISITOR == <<Lit(<<"(">>), WsStar, Lit(<<"v">>), WsStar, Lit(<<")">>)>>
\* \s+S[A-Z]{0,2}\d{1,2}\s*$
RE_MC_TAIL == <<WsPlus, Lit(<<"s">>), Cls(Lower, 0, 2), Cls(Digit, 1, 2), WsStar, EOL>>
\* ,\s+
RE_COMMA_WS == <<Lit(<<",">>), WsPlus>>

normalise_name(raw) ==
    StrUpper(Strip(CollapseWs(
        ReSub(RE_COMMA_WS, FALSE, <<","," ">>,
        ReSub(<<Lit(<<",">>)>>, FALSE, <<","," ">>,
        ReSub(<<Lit(<<" ",",">>)>>, FALSE, <<",">>,
        ReSub(RE_MC_TAIL, TRUE, <<>>,
        ReSub(RE_VISITOR, TRUE, <<>>, Strip(raw)))))))))

\* ^(\d{1,2})$
AGE_PAT == <<BOL, Cls(Digit, 1, 2), EOL>>
\* ^S[A-Z]{0,2}\d{1,2}$
mc_pat == <<BOL, Lit(<<"s">>), Cls(Lower, 0, 2), Cls(Digit, 1, 2), EOL>>
\* ^[MWX]\d{1,2}$
sex_age_pat == <<BOL, Cls({"m", "w", "x"}, 1, 1), Cls(Digit, 1, 2), EOL>>
\* ^NT$
RE_NT == <<BOL, Lit(<<"n","t">>), EOL>>
\* ^\d{1,2}:\d{2}\.\d{2}$
RE_TIME_MSC == <<BOL, Cls(Digit, 1, 2), Lit(<<":">>), Cls(Digit, 2, 2), Lit(<<".">>),
                 Cls(Digit, 2, 2), EOL>>
\* ^\d{1,2}\.\d{2}$
RE_TIME_SC == <<BOL, Cls(Digit, 1, 2), Lit(<<".">>), Cls(Digit, 2, 2), EOL>>

IsAgeLike(tok) ==
    \/ ReMatch(AGE_PAT, FALSE, tok).ok
    \/ ReMatch(sex_age_pat, TRUE, tok).ok
    \/ ReMatch(mc_pat, TRUE, tok).ok

\* ^(NT|\d{1,2}:\d{2}\.\d{2})$
IsLaneTime(tok) == ReMatch(RE_NT, TRUE, tok).ok \/ ReMatch(RE_TIME_MSC, TRUE, tok).ok

\* ^\d{1,2}:\d{2}\.\d{2}$|^\d{1,2}\.\d{2}$|^NT$
IsPrelim(tok) ==
    \/ ReMatch(RE_TIME_MSC, TRUE, tok).ok
    \/ ReMatch(RE_TIME_SC, TRUE, tok).ok
    \/ ReMatch(RE_NT, TRUE, tok).ok

\* the number of leading tokens before the first one that stops the name
RECURSIVE LaneNameLen(_)
LaneNameLen(tokens) ==
    IF tokens = <<>> \/ IsAgeLike(tokens[1]) \/ IsLaneTime(tokens[1]) THEN 0
    ELSE 1 + LaneNameLen(Tail(tokens))

RECURSIVE AltNameLen(_)
AltNameLen(tokens) ==
    IF tokens = <<>> \/ IsAgeLike(tokens[1]) THEN 0
    ELSE 1 + AltNameLen(Tail(tokens))

\* ^([0-9])\s+(.*)$
RE_LANE == <<BOL, Cls(Digit, 1, 1), WsPlus, Cls(AnyCh, 0, Inf), EOL>>

NoLane == [ok |-> FALSE, lane |-> 0, name |-> <<>>]

\* name_tokens, name and the return of parse_lane_line
LaneOfName(lane, name_tokens) ==
    IF name_tokens = <<>> \/ Strip(Join(name_tokens)) = <<>> THEN NoLane
    ELSE [ok |-> TRUE, lane |-> lane, name |-> normalise_name(Strip(Join(name_tokens)))]

\* NameTokens that takes the stop token into the name
NameTokens_with_stop(tokens) ==
    SubSeq(tokens, 1, IF LaneNameLen(tokens) < Len(tokens)
                      THEN LaneNameLen(tokens) + 1 ELSE Len(tokens))

\* the tokens before the first stop token
NameTokens(tokens) == SubSeq(tokens, 1, LaneNameLen(tokens))

LaneOfMatch(text, m) ==
    IF ~m.ok THEN NoLane
    ELSE LaneOfName(ToInt(Group(m, text, 2)), NameTokens(Split(Strip(Group(m, text, 4)))))

\* parse_lane_line: ok is FALSE where the source returns None
parse_lane_line(raw) == LaneOfMatch(Strip(raw), ReMatch(RE_LANE, FALSE, Strip(raw)))

\* ^(\d+)\s+(.*)$
RE_RANK == <<BOL, Cls(Digit, 1, Inf), WsPlus, Cls(AnyCh, 0, Inf), EOL>>

\* the index of the first prelim-shaped token of rem, 0 when there is none
RECURSIVE FirstPrelim(_, _)
FirstPrelim(rem, j) ==
    IF j > Len(rem) THEN 0
    ELSE IF IsPrelim(rem[j]) THEN j ELSE FirstPrelim(rem, j + 1)

NoAlt == [ok |-> FALSE, rank |-> 0, name |-> <<>>, team |-> <<>>, prelim |-> <<>>]

\* team and prelim from rem, the tokens after the age token; j is the index
\* of the first prelim-shaped one
AltOfRem(rank, name, rem, j) ==
    IF j > 0
    THEN [ok |-> TRUE, rank |-> rank, name |-> name,
          team |-> StrUpper(Strip(Join(SubSeq(rem, 1, j - 1)))), prelim |-> rem[j]]
    ELSE IF rem # <<>>
    THEN [ok |-> TRUE, rank |-> rank, name |-> name,
          team |-> StrUpper(Strip(Join(SubSeq(rem, 1, Len(rem) - 1)))),
          prelim |-> rem[Len(rem)]]
    ELSE [ok |-> TRUE, rank |-> rank, name |-> name, team |-> <<>>, prelim |-> <<>>]

\* nlen name tokens, then the age token (idx_age) when nlen < len(tokens)
AltOfName(rank, tokens, nlen) ==
    IF nlen = 0 THEN NoAlt
    ELSE AltOfRem(rank, normalise_name(Join(SubSeq(tokens, 1, nlen))),
                  SubSeq(tokens, nlen + 2, Len(tokens)),
                  FirstPrelim(SubSeq(tokens, nlen + 2, Len(tokens)), 1))

AltOfMatch(text, m) ==
    IF ~m.ok THEN NoAlt
    ELSE AltOfName(ToInt(Group(m, text, 2)), Split(Strip(Group(m, text, 4))),
                   AltNameLen(Split(Strip(Group(m, text, 4)))))

\* parse_alternate_line: ok is FALSE where the source returns None
parse_alternate_line(raw) ==
    AltOfMatch(CollapseWs(Strip(raw)), ReMatch(RE_RANK, FALSE, CollapseWs(Strip(raw))))

(***************************************************************************)
(* Title inference                                                         *)
(***************************************************************************)
\* str(n) for n >= 0
RECURSIVE IntStr(_)
IntStr(n) == IF n < 10 THEN <<DigitS[n + 1]>>
             ELSE IntStr(n \div 10) \o <<DigitS[(n % 10) + 1]>>

\* the two-digit, zero-padded form strftime gives for %d and %m
Pad2(n) == IF n < 10 THEN <<"0">> \o IntStr(n) ELSE IntStr(n)

\* the proleptic Gregorian calendar of datetime.date
IsLeap(y) == y % 4 = 0 /\ (y % 100 # 0 \/ y % 400 = 0)
DaysInMonth(y, m) ==
    IF m = 2 THEN (IF IsLeap(y) THEN 29 ELSE 28)
    ELSE IF m \in {4, 6, 9, 11} THEN 30 ELSE 31
RECURSIVE DaysBeforeMonth(_, _)
DaysBeforeMonth(y, m) ==
    IF m = 1 THEN 0 ELSE DaysBeforeMonth(y, m - 1) + DaysInMonth(y, m - 1)
DaysBeforeYear(y) ==
    (y - 1) * 365 + ((y - 1) \div 4) - ((y - 1) \div 100) + ((y - 1) \div 400)
MINYEAR == 1
MAXYEAR == 9999
MaxOrdinal == DaysBeforeYear(MAXYEAR + 1)
MaxDeltaDays == 999999999

\* what datetime.date(y, m, d) accepts
ValidDate(y, m, d) ==
    /\ y >= MINYEAR /\ y <= MAXYEAR
    /\ m >= 1 /\ m <= 12
    /\ d >= 1 /\ d <= DaysInMonth(y, m)

ToOrdinal(y, m, d) == DaysBeforeYear(y) + DaysBeforeMonth(y, m) + d

\* date.fromordinal(n), 1 <= n <= MaxOrdinal
FromOrdinal(n) ==
    LET y == CHOOSE yy \in MINYEAR..MAXYEAR :
                 DaysBeforeYear(yy) < n /\ n <= DaysBeforeYear(yy + 1)
        r == n - DaysBeforeYear(y)
        m == CHOOSE mm \in 1..12 :
                 DaysBeforeMonth(y, mm) < r
                 /\ r <= DaysBeforeMonth(y, mm) + DaysInMonth(y, mm)
    IN  [y |-> y, m |-> m, d |-> r - DaysBeforeMonth(y, m)]

\* -\s*(\d{1,2}/\d{1,2}/\d{4})\s+to\s+(\d{1,2}/\d{1,2}/\d{4})
RE_DATE_RANGE == <<Lit(<<"-">>), WsStar,
                   Cls(Digit, 1, 2), Lit(<<"/">>), Cls(Digit, 1, 2), Lit(<<"/">>), Cls(Digit, 4, 4),
                   WsPlus, Lit(<<"t","o">>), WsPlus,
                   Cls(Digit, 1, 2), Lit(<<"/">>), Cls(Digit, 1, 2), Lit(<<"/">>), Cls(Digit, 4, 4)>>
\* Night\s+(One|Two|Three|Four|Five|Six|Seven|Eight|Nine|Ten|\d+): the word
\* alternatives and the \d+ alternative
RE_NIGHT_WORD == <<Lit(<<"n","i","g","h","t">>), WsPlus,
                   Alt(<<<<"o","n","e">>, <<"t","w","o">>, <<"t","h","r","e","e">>, <<"f","o","u","r">>, <<"f","i","v","e">>, <<"s","i","x">>,
                         <<"s","e","v","e","n">>, <<"e","i","g","h","t">>, <<"n","i","n","e">>, <<"t","e","n">>>>)>>
RE_NIGHT_NUM == <<Lit(<<"n","i","g","h","t">>), WsPlus, Cls(Digit, 1, Inf)>>

\* the dict words = {"one":1, ...}, else int(token) for a digit token
NightOf(token) ==
    CASE token = <<"o","n","e">> -> 1
      [] token = <<"t","w","o">> -> 2
      [] token = <<"t","h","r","e","e">> -> 3
      [] token = <<"f","o","u","r">> -> 4
      [] token = <<"f","i","v","e">> -> 5
      [] token = <<"s","i","x">> -> 6
      [] token = <<"s","e","v","e","n">> -> 7
      [] token = <<"e","i","g","h","t">> -> 8
      [] token = <<"n","i","n","e">> -> 9
      [] token = <<"t","e","n">> -> 10
      [] OTHER -> IF token # <<>> /\ \A j \in 1..Len(token) : token[j] \in Digit
                  THEN ToInt(token) ELSE 1

\* date.strftime("%d/%m/%Y")
DateStr(date) == Pad2(date.d) \o <<"/">> \o Pad2(date.m) \o <<"/">> \o IntStr(date.y)

\* f"Day {night_no} Heats - {date_str}"
TitleStr(night_no, date_str) == <<"D","a","y"," ">> \o IntStr(night_no) \o <<" ","H","e","a","t","s"," ","-"," ">> \o date_str

TitleRaises == [ok |-> FALSE, title |-> <<>>]

\* start_date + dt.timedelta(days=night_no-1), formatted; ord is its ordinal
TitleOfOrdinal(night_no, ord) ==
    IF night_no - 1 > MaxDeltaDays \/ ord < 1 \/ ord > MaxOrdinal THEN TitleRaises
    ELSE [ok |-> TRUE, title |-> TitleStr(night_no, DateStr(FromOrdinal(ord)))]

\* strptime(m.group(1), "%d/%m/%Y") raises for a day, month or year that is
\* no date
TitleOfDate(night_no, y, mo, d) ==
    IF ~ValidDate(y, mo, d) THEN TitleRaises
    ELSE TitleOfOrdinal(night_no, ToOrdinal(y, mo, d) + night_no - 1)

TitleOfMatch(meet_line, m, night_no) ==
    IF ~m.ok THEN [ok |-> TRUE, title |-> TitleStr(night_no, <<>>)]
    ELSE TitleOfDate(night_no, ToInt(Group(m, meet_line, 7)),
                     ToInt(Group(m, meet_line, 5)), ToInt(Group(m, meet_line, 3)))

\* night_no from the match m2 of the night pattern
NightNo(program_line, m2) ==
    IF m2.ok THEN NightOf(StrLower(Group(m2, program_line, 3))) ELSE 1

\* m2: the leftmost match of either alternative
NightMatch(mw, mn) == IF mw.ok /\ (~mn.ok \/ mw.start < mn.start) THEN mw ELSE mn

TitleOfLines(meet_line, program_line) ==
    TitleOfMatch(meet_line, ReSearch(RE_DATE_RANGE, FALSE, meet_line),
                 NightNo(program_line,
                         NightMatch(ReSearch(RE_NIGHT_WORD, TRUE, program_line),
                                    ReSearch(RE_NIGHT_NUM, TRUE, program_line))))

\* infer_day_title: ok is FALSE where the source raises (strptime's
\* ValueError, the OverflowError of timedelta and of date + timedelta)
infer_day_title(first_page_lines) ==
    TitleOfLines(IF first_page_lines # <<>> THEN first_page_lines[1] ELSE <<>>,
                 IF Len(first_page_lines) > 1 THEN first_page_lines[2] ELSE <<>>)

(***************************************************************************)
(* parse_pdf: the parse state machine                                      *)
(***************************************************************************)
VARIABLES
    pc,                   \* "start", "loop", "done", "error", or "idle"
    err,                  \* the exception that ended parse_pdf, "" if none
    MAX_HEATS_PER_EVENT,  \* the module's heat cap, None for unlimited
    pending,              \* lines of pages[0] given to infer_day_title, not yet read
    nread,                \* raw lines the loop has taken so far
    line,                 \* the loop's current stripped line
    title,
    events,
    alternates,
    current_event,        \* <<>> for None, <<e>> for the Event e
    current_heat,         \* 0 for None, else the index in current_event.heats
    in_alternates,
    current_alt_group,
    npages,               \* len(pdf.pages) of the document
    latest_heat_line,     \* history: the latest heat-header line read in the
                          \* current event, <<>> if none
    alt_heading_line,     \* history: the alternates heading line that opened
                          \* the current alternates block, <<>> if none
    fin, fout, fout2, fpc \* argument, results and position of a function under test

parse_vars == <<pc, err, MAX_HEATS_PER_EVENT, pending, nread, line, title, events,
                alternates, current_event, current_heat, in_alternates,
                current_alt_group, npages, latest_heat_line,
                alt_heading_line>>
fn_vars == <<fin, fout, fout2, fpc>>
vars == <<parse_vars, fn_vars>>

None == -1

\* bounds of the model
MaxLines == 5
MaxCap == 1
MaxPages == 1

\* the dataclasses Event, Heat and AlternateEntry
Event(number, gender, event_code, age_group) ==
    [number |-> number, gender |-> gender, event_code |-> event_code,
     age_group |-> age_group, heats |-> <<>>]
Heat(raw_label, label) == [raw_label |-> raw_label, label |-> label, lanes |-> <<>>]
AlternateEntry(e, heat_label, alt_group, parsed_alt) ==
    [event_no |-> e.number, gender |-> e.gender, event_code |-> e.event_code,
     age_group |-> e.age_group, heat_label |-> heat_label, alt_group |-> alt_group,
     rank |-> parsed_alt.rank, name |-> parsed_alt.name, team |-> parsed_alt.team,
     prelim |-> parsed_alt.prelim]

\* the lines a document may hold
L_EV1 == <<"E","v","e","n","t"," ","1"," ","G","i","r","l","s"," ","1","5"," ","&"," ","O","v","e","r"," ","5","0"," ","L","C"," ","M","e","t","e","r"," ","F","r","e","e","s","t","y","l","e">>
L_EV0 == <<"E","v","e","n","t"," ","0"," "," ","M","i","x","e","d"," ","2","0","0"," ","M","e","t","e","r"," ","I","M"," ","M","u","l","t","i","-","C","l","a","s","s"," ">>
L_EVOPEN == <<"E","v","e","n","t"," ","2"," ","O","p","e","n"," ","5","0"," ","L","C"," ","M","e","t","e","r"," ","F","r","e","e","s","t","y","l","e">>
L_HEAT1 == <<"H","e","a","t"," ","1">>
L_FINAL == <<"F","i","n","a","l"," "," ","1","b"," "," ","1","5"," ","Y","e","a","r"," ","O","l","d","s">>
L_HEATWORD == <<"H","e","a","t">>
L_ALTS == <<"A","l","t","e","r","n","a","t","e","s"," "," ","-"," "," ","F","i","n","a","l">>
L_ROW == <<"1"," ","S","m","i","t","h",","," ","J","a","n","e"," ","1","4"," ","N","T">>
L_ROW2 == <<" ","1"," ","L","e","e"," ","(","V",")",","," ","A","l"," ","S","M","9"," ","S","o","p","a","c"," ","2","7",".","7","4">>
L_NONAME == <<"3"," ","1","4">>
L_BOILER == <<"L","a","n","e"," ","N","a","m","e"," ","A","g","e"," ","T","e","a","m">>
L_JUNK == <<"S","e","s","s","i","o","n"," ","R","e","s","u","l","t","s">>
L_BLANK == <<" ">>
L_MEET == <<"M","e","e","t"," ","-"," ","1","/","3","/","2","0","2","4"," ","t","o"," ","2","/","3","/","2","0","2","4">>
L_MEETBAD == <<"M","e","e","t"," ","-"," ","3","1","/","2","/","2","0","2","4"," ","t","o"," ","2","/","3","/","2","0","2","4">>
L_NIGHT == <<"P","r","o","g","r","a","m"," ","-"," ","N","i","g","h","t"," ","T","w","o">>

RawLines == {L_EV1, L_EV0, L_EVOPEN, L_HEAT1, L_FINAL, L_HEATWORD, L_ALTS, L_ROW,
             L_ROW2, L_NONAME, L_BOILER, L_JUNK, L_BLANK}
HeadLines == {L_MEET, L_MEETBAD, L_NIGHT}
\* pages[0].splitlines()[:2], the part of the input infer_day_title reads
HeadSeqs == {<<>>} \cup {<<a>> : a \in HeadLines} \cup {<<a, b>> : a, b \in HeadLines}
Lines == {Strip(r) : r \in RawLines \cup HeadLines}

\* the boilerplate tests of the loop
\* ^\d{4}-\d{2}\b
RE_CODE_LINE == <<BOL, Cls(Digit, 4, 4), Lit(<<"-">>), Cls(Digit, 2, 2), WB>>
IsBoilerplate(l) ==
    LET low == StrLower(l)
    IN  \/ StartsWith(low, <<"l","a","n","e"," ">>) \/ StartsWith(low, <<"n","a","m","e"," ">>)
        \/ StartsWith(low, <<"a","g","e"," ">>) \/ StartsWith(low, <<"t","e","a","m"," ">>)
        \/ StartsWith(low, <<"f","i","n","a","l","s"," ","p","r","o","g","r","a","m">>)
        \/ ReMatch(RE_CODE_LINE, FALSE, l).ok
IsAlternatesHeading(l) == StartsWith(StrLower(l), <<"a","l","t","e","r","n","a","t","e","s">>)

\* the classifiers on the lines of the document, evaluated once per line
EvOf == [l \in Lines |-> parse_event_header(l)]
HeatOf == [l \in Lines |-> parse_heat_label(l)]
AltOf == [l \in Lines |-> parse_alternate_line(l)]
LaneOf == [l \in Lines |-> parse_lane_line(l)]
BoilerOf == [l \in Lines |-> IsBoilerplate(l)]
AltHeadOf == [l \in Lines |-> IsAlternatesHeading(l)]

\* the raw lines by the branch of the loop body that takes them once an
\* event is current: the tests of the loop in the source's order
Inputs == RawLines \cup HeadLines
BlankRaws == {r \in Inputs : Strip(r) = <<>>}
EventRaws == {r \in Inputs \ BlankRaws : EvOf[Strip(r)].ok}
OtherRaws == Inputs \ (BlankRaws \cup EventRaws)
BoilerRaws == {r \in OtherRaws : BoilerOf[Strip(r)]}
AltHeadRaws == {r \in OtherRaws \ BoilerRaws : AltHeadOf[Strip(r)]}
HeatRaws == {r \in OtherRaws \ (BoilerRaws \cup AltHeadRaws) : HeatOf[Strip(r)].ok}
RowRaws == OtherRaws \ (BoilerRaws \cup AltHeadRaws \cup HeatRaws)

\* the loop's context as one value
Ctx == [events |-> events, alternates |-> alternates, current_event |-> current_event,
        current_heat |-> current_heat, in_alternates |-> in_alternates,
        current_alt_group |-> current_alt_group]
SetCtx(c) ==
    /\ events' = c.events
    /\ alternates' = c.alternates
    /\ current_event' = c.current_event
    /\ current_heat' = c.current_heat
    /\ in_alternates' = c.in_alternates
    /\ current_alt_group' = c.current_alt_group

\* on_event_header with the reset of current_heat left out
on_event_header_keeps_heat(c, ev) ==
    [c EXCEPT !.events = (IF c.current_event # <<>>
                          THEN Append(@, c.current_event[1]) ELSE @),
              !.current_event = <<Event(ev.number, ev.gender, ev.event_code, ev.age_group)>>,
              !.in_alternates = FALSE,
              !.current_alt_group = <<>>]

\* if ev: ... continue
on_event_header(c, ev) ==
    [c EXCEPT !.events = (IF c.current_event # <<>>
                          THEN Append(@, c.current_event[1]) ELSE @),
              !.current_event = <<Event(ev.number, ev.gender, ev.event_code, ev.age_group)>>,
              !.current_heat = 0,
              !.in_alternates = FALSE,
              !.current_alt_group = <<>>]

\* on_alternates_heading that keeps the heading as it is written
on_alternates_heading_verbatim(c, l) ==
    [c EXCEPT !.in_alternates = TRUE,
              !.current_alt_group = Strip(l)]

\* if low.startswith("alternates"): ... continue
on_alternates_heading(c, l) ==
    [c EXCEPT !.in_alternates = TRUE,
              !.current_alt_group = CollapseWs(Strip(l))]

\* on_heat_header that leaves current_heat on the last heat when the cap is
\* reached
on_heat_header_keeps_last_heat(c, cap, l, heat_label) ==
    LET heats == c.current_event[1].heats
        c1 == [c EXCEPT !.in_alternates = FALSE, !.current_alt_group = <<>>]
    IN  IF cap # None /\ Len(heats) >= cap
        THEN c1
        ELSE [c1 EXCEPT !.current_event[1].heats = Append(@, Heat(l, heat_label)),
                        !.current_heat = Len(heats) + 1]

\* if heat_label is not None: ... continue
on_heat_header(c, cap, l, heat_label) ==
    LET heats == c.current_event[1].heats
        c1 == [c EXCEPT !.in_alternates = FALSE, !.current_alt_group = <<>>]
    IN  IF cap # None /\ Len(heats) >= cap
        THEN [c1 EXCEPT !.current_heat = 0]
        ELSE [c1 EXCEPT !.current_event[1].heats = Append(@, Heat(l, heat_label)),
                        !.current_heat = Len(heats) + 1]

\* on_alternate_row without the test of current_event.heats: the entry of an
\* event without heats gets an empty heat label
on_alternate_row_without_heat_test(c, parsed_alt) ==
    IF parsed_alt.ok /\ c.current_event # <<>>
    THEN LET e == c.current_event[1]
         IN  [c EXCEPT !.alternates =
                 Append(@, AlternateEntry(e, IF e.heats # <<>>
                                             THEN e.heats[Len(e.heats)].label ELSE <<>>,
                                          c.current_alt_group, parsed_alt))]
    ELSE c

\* if in_alternates: ... continue
on_alternate_row(c, parsed_alt) ==
    IF parsed_alt.ok /\ c.current_event # <<>> /\ c.current_event[1].heats # <<>>
    THEN LET e == c.current_event[1]
         IN  [c EXCEPT !.alternates =
                 Append(@, AlternateEntry(e, e.heats[Len(e.heats)].label,
                                          c.current_alt_group, parsed_alt))]
    ELSE c

\* SetLane that keeps the name a lane already has
SetLane_keeps_first(lanes, lane, name) ==
    [k \in DOMAIN lanes \cup {lane} |-> IF k \in DOMAIN lanes THEN lanes[k] ELSE name]

\* current_heat.lanes[lane] = name
SetLane(lanes, lane, name) ==
    [k \in DOMAIN lanes \cup {lane} |-> IF k = lane THEN name ELSE lanes[k]]

\* on_lane_row that closes the heat on a row it cannot parse
on_lane_row_closes_heat(c, parsed) ==
    IF parsed.ok /\ c.current_heat # 0
    THEN [c EXCEPT !.current_event[1].heats[c.current_heat].lanes =
                       SetLane(@, parsed.lane, parsed.name)]
    ELSE [c EXCEPT !.current_heat = 0]

\* the normal lane row at the end of the loop body
on_lane_row(c, parsed) ==
    IF parsed.ok /\ c.current_heat # 0
    THEN [c EXCEPT !.current_event[1].heats[c.current_heat].lanes =
                       SetLane(@, parsed.lane, parsed.name)]
    ELSE c

\* app.py, events_to_rows: the row of one heat: the event's fields, the heat
\* label, the empty Cal column, lanes 0..9 and four empty analyst columns
HeatRow(ev, heat) ==
    <<IntStr(ev.number), ev.gender, ev.event_code, ev.age_group, heat.label, <<>>>>
    \o [k \in 1..10 |-> IF (k - 1) \in DOMAIN heat.lanes THEN heat.lanes[k - 1] ELSE <<>>]
    \o <<<<>>, <<>>, <<>>, <<>>>>

\* EventRows that leaves out the heats without lanes
EventRows_only_filled(ev) ==
    LET filled == SelectSeq(ev.heats, LAMBDA h : DOMAIN h.lanes # {})
    IN  [k \in 1..Len(filled) |-> HeatRow(ev, filled[k])]

\* for heat in ev.heats: ... rows.append(row)
EventRows(ev) == [k \in 1..Len(ev.heats) |-> HeatRow(ev, ev.heats[k])]

\* for ev in events: ...
RECURSIVE events_to_rows(_)
events_to_rows(evs) ==
    IF evs = <<>> THEN <<>> ELSE EventRows(evs[1]) \o events_to_rows(Tail(evs))

FnIdle == fin = <<>> /\ fout = <<>> /\ fout2 = <<>> /\ fpc = "idle"

Init ==
    /\ pc = "start"
    /\ err = ""
    /\ MAX_HEATS_PER_EVENT \in {None} \cup 0..MaxCap
    /\ pending = <<>>
    /\ nread = 0
    /\ line = <<>>
    /\ title = <<>>
    /\ events = <<>>
    /\ alternates = <<>>
    /\ current_event = <<>>
    /\ current_heat = 0
    /\ in_alternates = FALSE
    /\ current_alt_group = <<>>
    /\ npages \in 0..MaxPages
    /\ latest_heat_line = <<>>
    /\ alt_heading_line = <<>>
    /\ FnIdle

\* Open that reads a document without pages as one empty page
Open_tolerates_no_pages ==
    /\ pc = "start"
    /\ \E first \in HeadSeqs :
          LET t == infer_day_title(IF npages = 0 THEN <<>> ELSE first)
          IN  IF ~t.ok
              THEN /\ pc' = "error" /\ err' = "ValueError"
                   /\ UNCHANGED <<pending, title>>
              ELSE /\ pc' = "loop" /\ title' = t.title
                   /\ pending' = IF npages = 0 THEN <<>> ELSE first
                   /\ UNCHANGED err
    /\ UNCHANGED <<MAX_HEATS_PER_EVENT, nread, line, events, alternates, current_event,
                   current_heat, in_alternates, current_alt_group, npages,
                   latest_heat_line, alt_heading_line, fn_vars>>

\* pdfplumber's pages and the title: pages[0] of a document without pages
\* raises IndexError, and infer_day_title may raise
Open ==
    /\ pc = "start"
    /\ \E first \in HeadSeqs :
          LET t == infer_day_title(first)
          IN  IF npages = 0
              THEN /\ pc' = "error" /\ err' = "IndexError"
                   /\ UNCHANGED <<pending, title>>
              ELSE IF ~t.ok
              THEN /\ pc' = "error" /\ err' = "ValueError"
                   /\ UNCHANGED <<pending, title>>
              ELSE /\ pc' = "loop" /\ title' = t.title /\ pending' = first
                   /\ UNCHANGED err
    /\ UNCHANGED <<MAX_HEATS_PER_EVENT, nread, line, events, alternates, current_event,
                   current_heat, in_alternates, current_alt_group, npages,
                   latest_heat_line, alt_heading_line, fn_vars>>

\* the raw lines the loop may take next
Avail == IF pending # <<>> THEN {pending[1]} ELSE RawLines

\* the loop takes the next raw line and strips it
Take(raw) ==
    /\ pc = "loop"
    /\ nread < MaxLines
    /\ raw \in Avail
    /\ pending' = IF pending # <<>> THEN Tail(pending) ELSE pending
    /\ nread' = nread + 1
    /\ line' = Strip(raw)
    /\ UNCHANGED <<pc, err, MAX_HEATS_PER_EVENT, title, npages, fn_vars>>

\* if not line: continue
BlankLine ==
    \E raw \in BlankRaws :
        /\ Take(raw)
        /\ SetCtx(Ctx)
        /\ UNCHANGED <<latest_heat_line, alt_heading_line>>

EventHeaderLine ==
    \E raw \in EventRaws :
        /\ Take(raw)
        /\ SetCtx(on_event_header(Ctx, EvOf[Strip(raw)]))
        /\ latest_heat_line' = <<>>
        /\ alt_heading_line' = <<>>

\* if not current_event: continue
PreEventLine ==
    /\ current_event = <<>>
    /\ \E raw \in OtherRaws :
        /\ Take(raw)
        /\ SetCtx(Ctx)
        /\ UNCHANGED <<latest_heat_line, alt_heading_line>>

BoilerplateLine ==
    /\ current_event # <<>>
    /\ \E raw \in BoilerRaws :
        /\ Take(raw)
        /\ SetCtx(Ctx)
        /\ UNCHANGED <<latest_heat_line, alt_heading_line>>

AlternatesHeadingLine ==
    /\ current_event # <<>>
    /\ \E raw \in AltHeadRaws :
        /\ Take(raw)
        /\ SetCtx(on_alternates_heading(Ctx, Strip(raw)))
        /\ alt_heading_line' = Strip(raw)
        /\ UNCHANGED latest_heat_line

HeatHeaderLine ==
    /\ current_event # <<>>
    /\ \E raw \in HeatRaws :
        /\ Take(raw)
        /\ SetCtx(on_heat_header(Ctx, MAX_HEATS_PER_EVENT, Strip(raw),
                                 HeatOf[Strip(raw)].label))
        /\ latest_heat_line' = Strip(raw)
        /\ alt_heading_line' = <<>>

AlternateRowLine ==
    /\ current_event # <<>>
    /\ in_alternates
    /\ \E raw \in RowRaws :
        /\ Take(raw)
        /\ SetCtx(on_alternate_row(Ctx, AltOf[Strip(raw)]))
        /\ UNCHANGED <<latest_heat_line, alt_heading_line>>

\* LaneRowLine that takes lane rows in alternates mode too
LaneRowLine_in_alternates_too ==
    /\ current_event # <<>>
    /\ \E raw \in RowRaws :
        /\ Take(raw)
        /\ SetCtx(on_lane_row(Ctx, LaneOf[Strip(raw)]))
        /\ UNCHANGED <<latest_heat_line, alt_heading_line>>

\* the normal lane row: reached only when in_alternates is false
LaneRowLine ==
    /\ current_event # <<>>
    /\ ~in_alternates
    /\ \E raw \in RowRaws :
        /\ Take(raw)
        /\ SetCtx(on_lane_row(Ctx, LaneOf[Strip(raw)]))
        /\ UNCHANGED <<latest_heat_line, alt_heading_line>>

\* the end of the input: if current_event: events.append(current_event); return
Finish ==
    /\ pc = "loop"
    /\ pending = <<>>
    /\ pc' = "done"
    /\ events' = IF current_event # <<>> THEN Append(events, current_event[1]) ELSE events
    /\ UNCHANGED <<err, MAX_HEATS_PER_EVENT, pending, nread, line, title, alternates,
                   current_event, current_heat, in_alternates, current_alt_group,
                   npages, latest_heat_line, alt_heading_line, fn_vars>>

Next ==
    \/ Open
    \/ BlankLine
    \/ EventHeaderLine
    \/ PreEventLine
    \/ BoilerplateLine
    \/ AlternatesHeadingLine
    \/ HeatHeaderLine
    \/ AlternateRowLine
    \/ LaneRowLine
    \/ Finish

Spec == Init /\ [][Next]_vars

(***************************************************************************)
(* The functions on their own: the argument is drawn in the initial state  *)
(* and the function is applied to it.                                      *)
(***************************************************************************)
ParseIdle ==
    /\ pc = "idle"
    /\ err = ""
    /\ MAX_HEATS_PER_EVENT = None
    /\ pending = <<>>
    /\ nread = 0
    /\ line = <<>>
    /\ title = <<>>
    /\ events = <<>>
    /\ alternates = <<>>
    /\ current_event = <<>>
    /\ current_heat = 0
    /\ in_alternates = FALSE
    /\ current_alt_group = <<>>
    /\ npages = 0
    /\ latest_heat_line = <<>>
    /\ alt_heading_line = <<>>

\* all sequences of at most n elements of S
SeqsUpTo(S, n) == UNION {[1..k -> S] : k \in 0..n}

\* infer_day_title on the lines of a first page
MaxTitleLines == 2
Days == {<<"0">>, <<"1">>, <<"2","9">>, <<"3","1">>}
Months == {<<"0">>, <<"2">>, <<"1","2">>, <<"1","3">>}
Years == {<<"0","0","0","0">>, <<"2","0","2","3">>, <<"2","0","2","4">>, <<"9","9","9","9">>}
MeetLines ==
    {<<"M","e","e","t">> , <<"M","e","e","t"," ","-"," ","1","/","3"," ","t","o"," ","2","/","3","/","2","0","2","4">>}
    \cup {<<"M","e","e","t"," ","-"," ">> \o d \o <<"/">> \o m \o <<"/">> \o y \o <<" ","t","o"," ","2","/","3","/","2","0","2","4">> :
            d \in Days, m \in Months, y \in Years}
ProgramLines == {<<>>, <<"P","r","o","g","r","a","m"," ","-"," ","N","i","g","h","t"," ","T","w","o">>, <<"n","i","g","h","t"," "," ","3"," ","f","i","n","a","l","s">>, <<"N","i","g","h","t"," ","0">>, <<"N","i","g","h","t"," ","1","0","0","0","0","0","0","0","0","1">>}
TitleLine(k) == IF k = 1 THEN MeetLines ELSE IF k = 2 THEN ProgramLines ELSE {L_JUNK}
TitleInputs ==
    UNION {{f \in [1..n -> MeetLines \cup ProgramLines \cup {L_JUNK}] :
              \A k \in 1..n : f[k] \in TitleLine(k)} : n \in 0..MaxTitleLines}

InitTitle ==
    /\ ParseIdle
    /\ fin \in TitleInputs
    /\ fout = <<>>
    /\ fout2 = <<>>
    /\ fpc = "call"

CallTitle ==
    /\ fpc = "call"
    /\ fout' = infer_day_title(fin)
    /\ fpc' = "return"
    /\ UNCHANGED <<parse_vars, fin, fout2>>

SpecTitle == InitTitle /\ [][CallTitle]_vars

\* parse_event_header on header lines and their neighbours
MaxRestParts == 3
HeaderStarts == {<<"E","v","e","n","t"," ","1"," ","G","i","r","l","s">>, <<"e","v","e","n","t"," "," ","1","2"," ","M","E","N">>, <<"E","v","e","n","t"," ","0"," ","M","i","x","e","d">>, <<"E","v","e","n","t"," ","3"," ","O","p","e","n">>,
                 <<"E","v","e","n","t"," ","7"," "," ","w","o","m","e","n">>, <<"E","v","e","n","t"," ","B","o","y","s">>}
RestParts == {<<"1","5"," ","&"," ","O","v","e","r">>, <<"5","0"," ","L","C"," ","M","e","t","e","r">>, <<"2","0","0"," ","M","e","t","e","r">>, <<"F","r","e","e","s","t","y","l","e">>, <<"I","M">>,
              <<"M","u","l","t","i","-","C","l","a","s","s">>, <<"R","e","l","a","y">>}
JoinParts(start, parts) == Join(<<start>> \o parts)
HeaderInputs == {JoinParts(s, ps) : s \in HeaderStarts, ps \in SeqsUpTo(RestParts, MaxRestParts)}

InitHeader ==
    /\ ParseIdle
    /\ fin \in HeaderInputs
    /\ fout = <<>>
    /\ fout2 = <<>>
    /\ fpc = "call"

CallHeader ==
    /\ fpc = "call"
    /\ fout' = parse_event_header(fin)
    /\ fpc' = "return"
    /\ UNCHANGED <<parse_vars, fin, fout2>>

SpecHeader == InitHeader /\ [][CallHeader]_vars

\* clean_heat_label on a label, and on its own result
MaxLabelParts == 4
LabelParts == {<<"1","a">>, <<"1","2">>, <<"1","2"," ","Y","e","a","r","s">>, <<"1","3"," ","Y","e","a","r","s"," ","O","l","d">>, <<"O","l","d">>, <<"-">>, <<"&"," ","O","v","e","r">>, <<"1","2"," ","&"," ","O","v","e","r">>}
LabelInputs == {Join(ps) : ps \in SeqsUpTo(LabelParts, MaxLabelParts)}

InitLabel ==
    /\ ParseIdle
    /\ fin \in LabelInputs
    /\ fout = <<>>
    /\ fout2 = <<>>
    /\ fpc = "call"

CleanOnce ==
    /\ fpc = "call"
    /\ fout' = clean_heat_label(fin)
    /\ fpc' = "once"
    /\ UNCHANGED <<parse_vars, fin, fout2>>

CleanTwice ==
    /\ fpc = "once"
    /\ fout2' = clean_heat_label(fout)
    /\ fpc' = "twice"
    /\ UNCHANGED <<parse_vars, fin, fout>>

NextLabel == CleanOnce \/ CleanTwice

SpecLabel == InitLabel /\ [][NextLabel]_vars

\* parse_lane_line on rows and their neighbours
MaxLaneTokens == 3
LaneStarts == {<<"3">>, <<" ","0">>, <<"1","2">>, <<"L","a","n","e">>}
LaneTokens == {<<"S","m","i","t","h",",">>, <<"J","a","n","e">>, <<"(","V",")">>, <<"1","4">>, <<"W","1","7">>, <<"S","M","9">>, <<"n","t">>, <<"1",":","0","2",".","3","3">>, <<"2","7",".","7","4">>}
LaneInputs ==
    {<<"3"," ","S","m","i","t","h",","," ","J","a","n","e"," ","1","4"," ","N","T">>, <<"3">>, <<"3"," ">>, <<"7"," "," ","L","e","e"," ",","," ","A","l"," "," ","S","1","4"," ","S","o","p","a","c">>}
    \cup {Join(<<s>> \o ts) : s \in LaneStarts, ts \in SeqsUpTo(LaneTokens, MaxLaneTokens)}

InitLane ==
    /\ ParseIdle
    /\ fin \in LaneInputs
    /\ fout = <<>>
    /\ fout2 = <<>>
    /\ fpc = "call"

CallLane ==
    /\ fpc = "call"
    /\ fout' = parse_lane_line(fin)
    /\ fpc' = "return"
    /\ UNCHANGED <<parse_vars, fin, fout2>>

SpecLane == InitLane /\ [][CallLane]_vars

(***************************************************************************)
(* Properties                                                              *)
(***************************************************************************)
\* the step reads one line in the loop
LineRead == pc = "loop" /\ nread' = nread + 1

\* C1: an event-header line is handled the same way in every state: the
\* previous current event, if any, is appended to events exactly once, a new
\* current event is made of the extracted fields, and current_heat becomes
\* None, in_alternates false and current_alt_group empty.
C1_EventHeaderStartsFreshContext ==
    [][(LineRead /\ EvOf[line'].ok) =>
         /\ events' = IF current_event # <<>>
                       THEN Append(events, current_event[1]) ELSE events
         /\ current_event' = <<Event(EvOf[line'].number, EvOf[line'].gender,
                                      EvOf[line'].event_code, EvOf[line'].age_group)>>
         /\ current_heat' = 0
         /\ in_alternates' = FALSE
         /\ current_alt_group' = <<>>
         /\ pc' = "loop"]_vars

\* an event header has been read while the previous event was inside a heat
C1_Witness ==
    /\ pc = "loop"
    /\ EvOf[line].ok
    /\ events # <<>>
    /\ events[Len(events)].heats # <<>>
    /\ current_event # <<>>
    /\ current_event[1].heats = <<>>
    /\ current_heat = 0

\* the two split the loop's lines as the source's tests do
Unmatched(l, in_alt) ==
    /\ ~EvOf[l].ok
    /\ ~BoilerOf[l]
    /\ ~AltHeadOf[l]
    /\ ~HeatOf[l].ok
    /\ ~(in_alt /\ AltOf[l].ok)
    /\ ~(~in_alt /\ LaneOf[l].ok)
CtxUnchanged ==
    UNCHANGED <<events, alternates, current_event, current_heat, in_alternates,
                current_alt_group>>

\* C2: an entry is added to alternates only in alternates mode and only when
\* the current event has at least one heat; whatever line is read while the
\* current event has no heat, alternates stays as it is and nothing is raised.
C2_AlternateNeedsHeat ==
    [][LineRead =>
         /\ (alternates' # alternates =>
               /\ in_alternates
               /\ current_event # <<>>
               /\ current_event[1].heats # <<>>
               /\ AltOf[line'].ok)
         /\ ((current_event = <<>> \/ current_event[1].heats = <<>>) =>
               /\ alternates' = alternates
               /\ pc' = "loop"
               /\ err' = "")]_vars

\* a valid alternate row has been read in alternates mode in an event
\* without heats, and nothing was added
C2_Witness ==
    /\ pc = "loop"
    /\ in_alternates
    /\ AltOf[line].ok
    /\ current_event # <<>>
    /\ current_event[1].heats = <<>>
    /\ alternates = <<>>

\* C3: every entry added to alternates has the number, gender, event_code
\* and age_group of the current event, and its heat_label is the label of the
\* latest heat-header line read in that event, also under a heat cap.
C3_AlternateCarriesLatestHeat ==
    [][Len(alternates') = Len(alternates) + 1 =>
         LET a == alternates'[Len(alternates')]
         IN  /\ current_event # <<>>
             /\ a.event_no = current_event[1].number
             /\ a.gender = current_event[1].gender
             /\ a.event_code = current_event[1].event_code
             /\ a.age_group = current_event[1].age_group
             /\ latest_heat_line # <<>>
             /\ a.heat_label = HeatOf[latest_heat_line].label]_vars

\* C4: a line that no classifier matches, and every line other than an event
\* header read before the first event, leaves events, alternates,
\* current_event, current_heat, in_alternates and current_alt_group as they
\* are and raises nothing.
C4_UnmatchedLineDiscarded ==
    [][(LineRead /\ (\/ Unmatched(line', in_alternates)
                     \/ (current_event = <<>> /\ ~EvOf[line'].ok))) =>
         /\ CtxUnchanged
         /\ pc' = "loop"
         /\ err' = ""]_vars

\* an unmatched line has been read inside a heat that has a lane
C4_Witness ==
    /\ pc = "loop"
    /\ line = Strip(L_JUNK)
    /\ ~in_alternates
    /\ current_heat # 0
    /\ DOMAIN current_event[1].heats[current_heat].lanes # {}

\* C5 as stated: parse_pdf never returns without having read a line
C5_NoLinesIsFatal == pc = "done" => nread > 0

\* C5: a document without pages ends parse_pdf with IndexError; a document
\* with pages of which no line is read returns the title "Day 1 Heats - ",
\* no events and no alternates.
C5_NoPagesFatalEmptyTextReturns ==
    /\ (pc # "start" /\ npages = 0) => (pc = "error" /\ err = "IndexError")
    /\ (pc = "done" /\ nread = 0) =>
          /\ npages > 0
          /\ err = ""
          /\ title = TitleStr(1, <<>>)
          /\ events = <<>>
          /\ alternates = <<>>

\* parse_pdf has returned for a document whose pages hold no text
C5_Witness == pc = "done" /\ nread = 0 /\ npages > 0 /\ events = <<>>

\* the number written in an event-header line
WrittenNumber(l) == ToInt(Split(l)[2])
\* the events made so far
EventCount == Len(events) + (IF pc = "done" THEN 0 ELSE Len(current_event))

\* C7 as stated: the returned events have positive, pairwise different numbers
C7_NumbersPositiveUnique ==
    pc = "done" =>
        /\ \A i \in 1..Len(events) : events[i].number > 0
        /\ \A i, j \in 1..Len(events) : events[i].number = events[j].number => i = j

\* C7: the number of every event is the non-negative integer written in its
\* header line, and every header line read makes exactly one event, so that a
\* repeated header repeats a number.
C7_NumberIsWritten ==
    [][/\ (LineRead /\ EvOf[line'].ok) =>
             /\ current_event'[1].number = WrittenNumber(line')
             /\ current_event'[1].number >= 0
       /\ EventCount' = EventCount + (IF LineRead /\ EvOf[line'].ok THEN 1 ELSE 0)
       /\ pc' = "done" =>
             \A i \in 1..Len(events') :
                 events'[i] = IF i <= Len(events) THEN events[i] ELSE current_event[1]]_vars

\* parse_pdf has returned two events of the same number, zero
C7_Witness ==
    /\ pc = "done"
    /\ Len(events) = 2
    /\ events[1].number = events[2].number
    /\ events[1].number = 0

\* a line of the shape "Event <n> <word> <rest>"
HeaderShaped(l) ==
    LET t == Split(l)
    IN  /\ Len(t) >= 4
        /\ StrLower(t[1]) = <<"e","v","e","n","t">>
        /\ \A j \in 1..Len(t[2]) : t[2][j] \in Digit
        /\ \A j \in 1..Len(t[3]) : t[3][j] \in Upper \cup Lower

\* C9: a line "Event <n> <word> <rest>" whose word is none of Girls, Women,
\* Boys, Men, Mixed starts a new event of empty gender.
C9_UnmappedGenderStartsEvent ==
    [][(LineRead /\ HeaderShaped(line') /\ GenderOf(StrLower(Split(line')[3])) = <<>>) =>
         /\ current_event' # <<>>
         /\ current_event'[1].number = WrittenNumber(line')
         /\ current_event'[1].gender = <<>>
         /\ current_event'[1].heats = <<>>
         /\ current_heat' = 0]_vars

\* C6: infer_day_title never raises: for every first page it returns a title
\* "Day {night} Heats - {date or empty}".
C6_TitleNeverFails ==
    fpc = "return" /\ pc = "idle" /\ fin \in TitleInputs =>
        /\ fout.ok
        /\ StartsWith(fout.title, <<"D","a","y"," ">>)

\* C8: for every line parse_event_header takes for an event header, gender
\* is W, M, X or empty and event_code is not empty.
C8_GenderAndCode ==
    (fpc = "return" /\ fin \in HeaderInputs /\ fout.ok) =>
        /\ fout.gender \in {<<"W">>, <<"M">>, <<"X">>, <<>>}
        /\ fout.event_code # <<>>

\* a header whose stroke phrase is only the multi-class marker has been parsed
C8_Witness ==
    /\ fpc = "return"
    /\ fin = <<"E","v","e","n","t"," ","0"," ","M","i","x","e","d"," ","5","0"," ","L","C"," ","M","e","t","e","r"," ","M","u","l","t","i","-","C","l","a","s","s">>
    /\ fout.ok
    /\ fout.gender = <<"X">>
    /\ fout.event_code = <<"5","0"," ","M","C">>

\* C10: clean_heat_label(clean_heat_label(L)) = clean_heat_label(L) for
\* every label L.
C10_CleanIdempotent == fpc = "twice" => fout2 = fout

\* the heats of the events before the i-th
RECURSIVE HeatsBefore(_, _)
HeatsBefore(evs, i) ==
    IF i <= 1 THEN 0 ELSE HeatsBefore(evs, i - 1) + Len(evs[i - 1].heats)
\* the labels of heats, in order
HeatLabels(heats) == [k \in 1..Len(heats) |-> <<heats[k].raw_label, heats[k].label>>]
\* one row per heat, the rows of an event together and in the order of its heats
RowPerHeat(evs, rows) ==
    /\ Len(rows) = HeatsBefore(evs, Len(evs) + 1)
    /\ \A i \in 1..Len(evs) : \A k \in 1..Len(evs[i].heats) :
           rows[HeatsBefore(evs, i) + k] = HeatRow(evs[i], evs[i].heats[k])

\* C11: without a heat cap every event-header line makes one Event, in input
\* order, every heat-header line read inside an event adds one Heat to it, in
\* order, no other line adds or removes a heat, a heat without lanes is kept,
\* and events_to_rows gives one row per heat with the rows of an event
\* together.
C11_OneEventPerHeaderOneHeatPerHeatLine ==
    /\ [](pc = "done" /\ MAX_HEATS_PER_EVENT = None =>
            RowPerHeat(events, events_to_rows(events)))
    /\ [][MAX_HEATS_PER_EVENT = None =>
            /\ (LineRead /\ EvOf[line'].ok) =>
                  /\ events' = events \o current_event
                  /\ current_event'[1].heats = <<>>
            /\ (LineRead /\ ~EvOf[line'].ok) =>
                  /\ events' = events
                  /\ Len(current_event') = Len(current_event)
            /\ (LineRead /\ ~EvOf[line'].ok /\ current_event # <<>>) =>
                  HeatLabels(current_event'[1].heats) =
                      HeatLabels(current_event[1].heats)
                      \o (IF HeatOf[line'].ok
                          THEN <<<<line', HeatOf[line'].label>>>> ELSE <<>>)
            /\ (LineRead /\ HeatOf[line'].ok /\ current_event # <<>>) =>
                  current_event'[1].heats[Len(current_event'[1].heats)].lanes = <<>>
            /\ pc' = "done" => events' = events \o current_event]_vars

\* parse_pdf has returned, without a cap, two events; the first has two
\* heats, the first of them without lanes, the second event has one heat
C11_Witness ==
    /\ pc = "done"
    /\ MAX_HEATS_PER_EVENT = None
    /\ Len(events) = 2
    /\ Len(events[1].heats) = 2
    /\ DOMAIN events[1].heats[1].lanes = {}
    /\ Len(events[2].heats) = 1
    /\ Len(events_to_rows(events)) = 3

\* a token of lo to hi digits
IsDigits(t, lo, hi) == Len(t) \in lo..hi /\ \A j \in 1..Len(t) : t[j] \in Digit
\* the stop tokens of a lane row: a bare age of one or two digits, a sex and
\* age token, a multi-class code, NT, a time mm:ss.cc
IsStopToken(t) ==
    \/ IsDigits(t, 1, 2)
    \/ /\ t # <<>>
       /\ ToUpper[t[1]] \in {"M", "W", "X"}
       /\ IsDigits(Tail(t), 1, 2)
    \/ /\ t # <<>>
       /\ ToUpper[t[1]] = "S"
       /\ \E k \in 1..3 :
             /\ k <= Len(t)
             /\ \A j \in 2..k : t[j] \in Upper \cup Lower
             /\ IsDigits(SubSeq(t, k + 1, Len(t)), 1, 2)
    \/ StrUpper(t) = <<"N","T">>
    \/ \E k \in 2..3 :
          /\ Len(t) = k + 5
          /\ IsDigits(SubSeq(t, 1, k - 1), 1, 2)
          /\ t[k] = ":"
          /\ IsDigits(SubSeq(t, k + 1, k + 2), 2, 2)
          /\ t[k + 3] = "."
          /\ IsDigits(SubSeq(t, k + 4, k + 5), 2, 2)
\* the longest run of leading tokens without a stop token
NameRun(tokens) ==
    LET n == CHOOSE k \in 0..Len(tokens) :
                 /\ \A j \in 1..k : ~IsStopToken(tokens[j])
                 /\ k < Len(tokens) => IsStopToken(tokens[k + 1])
    IN  SubSeq(tokens, 1, n)
\* the trimmed text starts with one digit and whitespace
LaneShaped(t) == Len(t) >= 2 /\ t[1] \in Digit /\ t[2] \in Space

\* C12: parse_lane_line accepts a line exactly when its trimmed text starts with
\* one digit and whitespace and the run of tokens before the first stop token
\* is not empty; the lane is that digit, in 0..9, and the name is the
\* normalised run, the stop token left out.
C12_LaneAndNameRun ==
    (fpc = "return" /\ fin \in LaneInputs) =>
        LET t == Strip(fin)
            run == IF LaneShaped(t) THEN NameRun(Split(Tail(t))) ELSE <<>>
        IN  /\ fout.ok <=> (LaneShaped(t) /\ run # <<>>)
            /\ fout.ok =>
                  /\ fout.lane = DigitVal(t[1])
                  /\ fout.lane \in 0..9
                  /\ fout.name = normalise_name(Join(run))

\* "3 Smith, Jane 14 NT" has given lane 3 and the name "SMITH, JANE"
C12_Witness ==
    /\ fpc = "return"
    /\ fin = <<"3"," ","S","m","i","t","h",","," ","J","a","n","e"," ","1","4"," ","N","T">>
    /\ fout.ok
    /\ fout.lane = 3
    /\ fout.name = <<"S","M","I","T","H",","," ","J","A","N","E">>

\* the line l is taken as a lane row and recorded
LaneRecorded(l) ==
    /\ current_event # <<>>
    /\ ~in_alternates
    /\ ~EvOf[l].ok /\ ~BoilerOf[l] /\ ~AltHeadOf[l] /\ ~HeatOf[l].ok
    /\ LaneOf[l].ok
    /\ current_heat # 0

\* C13: a lane row read in normal mode with a current heat sets the lane of
\* that heat to the row's name, whatever the lane held, and leaves its other
\* lanes alone; no step changes any other heat: the heats of stored events,
\* and the heats of the current event other than its latest, stay as they are.
C13_LastWritePerLaneWins ==
    [][/\ LineRead =>
            /\ \A i \in 1..Len(events) : events'[i] = events[i]
            /\ (EvOf[line'].ok /\ current_event # <<>>) =>
                  events'[Len(events')] = current_event[1]
            /\ (~EvOf[line'].ok /\ current_event # <<>>) =>
                  \A k \in 1..Len(current_event[1].heats) :
                      LET old == current_event[1].heats[k]
                          new == current_event'[1].heats[k]
                      IN  IF LaneRecorded(line') /\ k = current_heat
                          THEN /\ k = Len(current_event[1].heats)
                               /\ new.raw_label = old.raw_label
                               /\ new.label = old.label
                               /\ DOMAIN new.lanes = DOMAIN old.lanes \cup {LaneOf[line'].lane}
                               /\ new.lanes[LaneOf[line'].lane] = LaneOf[line'].name
                               /\ \A j \in DOMAIN old.lanes :
                                      j # LaneOf[line'].lane => new.lanes[j] = old.lanes[j]
                          ELSE new = old
       /\ pc' = "done" => events' = events \o current_event]_vars

\* a row for lane 1 has been recorded in the second heat, and the first
\* heat still holds the other name a row gave its lane 1
C13_Witness ==
    /\ pc = "loop"
    /\ line = Strip(L_ROW2)
    /\ current_heat = 2
    /\ current_event[1].heats[1].lanes = (1 :> LaneOf[Strip(L_ROW)].name)
    /\ current_event[1].heats[2].lanes = (1 :> LaneOf[Strip(L_ROW2)].name)
    /\ LaneOf[Strip(L_ROW)].name # LaneOf[Strip(L_ROW2)].name

\* C14 as stated: every entry carries the heading line of its block as it
\* is written, internal spacing included
C14_AltGroupVerbatim ==
    [][Len(alternates') = Len(alternates) + 1 =>
         alternates'[Len(alternates')].alt_group = alt_heading_line]_vars

\* C14: every entry carries the words of the heading line that opened its
\* block, joined by single spaces, and the heading of a block changes only
\* at an alternates heading, a heat header or an event header, so that the
\* entries of one block carry the same alt_group.
C14_AltGroupCollapsed ==
    [][/\ Len(alternates') = Len(alternates) + 1 =>
            /\ alt_heading_line # <<>>
            /\ alternates'[Len(alternates')].alt_group = Join(Split(alt_heading_line))
            /\ alt_heading_line' = alt_heading_line
       /\ (LineRead /\ ~EvOf[line'].ok /\ ~HeatOf[line'].ok /\ ~AltHeadOf[line']) =>
            /\ alt_heading_line' = alt_heading_line
            /\ current_alt_group' = current_alt_group]_vars

\* two entries of one block, whose heading is written with double spaces,
\* carry the same alt_group with single spaces
C14_Witness ==
    /\ pc = "loop"
    /\ alt_heading_line = Strip(L_ALTS)
    /\ Len(alternates) = 2
    /\ alternates[1].alt_group = alternates[2].alt_group
    /\ alternates[2].alt_group = Join(Split(L_ALTS))
    /\ alternates[2].alt_group # alt_heading_line

\* C15: in alternates mode no line changes a heat: a line that is neither a
\* heat header nor an event header leaves events, current_event and
\* current_heat as they are and stays in alternates mode, a heat header only
\* appends a heat; and the alternates heading itself enters alternates mode
\* without changing events, current_event or current_heat.
C15_AlternatesNeverReachHeats ==
    [][LineRead =>
         /\ (in_alternates /\ ~EvOf[line'].ok /\ ~HeatOf[line'].ok) =>
               /\ in_alternates'
               /\ events' = events
               /\ current_event' = current_event
               /\ current_heat' = current_heat
         /\ (in_alternates /\ HeatOf[line'].ok) =>
               /\ events' = events
               /\ \A k \in 1..Len(current_event[1].heats) :
                      current_event'[1].heats[k] = current_event[1].heats[k]
         /\ (in_alternates /\ EvOf[line'].ok) =>
               events' = Append(events, current_event[1])
         /\ (current_event # <<>> /\ AltHeadOf[line'] /\ ~EvOf[line'].ok
             /\ ~BoilerOf[line']) =>
               /\ in_alternates'
               /\ events' = events
               /\ current_event' = current_event
               /\ current_heat' = current_heat]_vars

\* a line that parses as a lane row has been read in alternates mode, with a
\* current heat, and the heat has no lane
C15_Witness ==
    /\ pc = "loop"
    /\ in_alternates
    /\ LaneOf[line].ok
    /\ current_heat # 0
    /\ DOMAIN current_event[1].heats[current_heat].lanes = {}
    /\ alternates # <<>>

\* no event holds more heats than the cap
WithinCap(evs, cap) == \A i \in 1..Len(evs) : Len(evs[i].heats) <= cap

\* C16: under a heat cap N no event ever holds more than N heats; a heat
\* header read when the current event has N heats makes no Heat and sets
\* current_heat to None, and while current_heat is None a line that is
\* neither a heat header nor an event header changes no heat.
C16_HeatCap ==
    /\ [](MAX_HEATS_PER_EVENT # None =>
            /\ WithinCap(events, MAX_HEATS_PER_EVENT)
            /\ WithinCap(current_event, MAX_HEATS_PER_EVENT))
    /\ [][LineRead =>
            /\ (/\ MAX_HEATS_PER_EVENT # None
                /\ current_event # <<>>
                /\ HeatOf[line'].ok
                /\ Len(current_event[1].heats) >= MAX_HEATS_PER_EVENT) =>
                  /\ current_event' = current_event
                  /\ current_heat' = 0
                  /\ events' = events
            /\ (current_heat = 0 /\ ~HeatOf[line'].ok /\ ~EvOf[line'].ok) =>
                  /\ current_event' = current_event
                  /\ current_heat' = 0
                  /\ events' = events]_vars

\* under a cap of one heat a second heat header has been read and then a
\* lane row: it is in no heat, and the one heat kept has no lane
C16_Witness ==
    /\ pc = "loop"
    /\ MAX_HEATS_PER_EVENT = 1
    /\ current_event # <<>>
    /\ ~in_alternates
    /\ LaneOf[line].ok
    /\ current_heat = 0
    /\ Len(current_event[1].heats) = 1
    /\ latest_heat_line # current_event[1].heats[1].raw_label
    /\ DOMAIN current_event[1].heats[1].lanes = {}

====
